---- MODULE Spec2Model ----
(***************************************************************************)
(* Model of art::compiler_llvm::JniCompiler (src/compiler_llvm/            *)
(* jni_compiler.cc): the lowering of a native method to a JNI stub, and    *)
(* the execution of the emitted stub on a thread, with the foreign code    *)
(* and a collector thread running beside it.                               *)
(***************************************************************************)
EXTENDS Integers, Sequences, FiniteSets, TLC

\* ---------------------------------------------------------------- bounds
MaxArgs == 2        \* declared arguments of a method
MaxSeg  == 2        \* local references the foreign code may create

\* ------------------------------------------------------------- constants
Null == 0           \* irb_.getJNull()
Undef == -1         \* content of memory returned by alloca, not yet stored to

RetTags == {"V", "I", "L"}
ArgTags == {"I", "L"}

RECURSIVE SeqsUpTo(_, _)
SeqsUpTo(S, n) ==
  IF n = 0 THEN {<<>>}
  ELSE LET shorter == SeqsUpTo(S, n - 1)
       IN  shorter \cup {Append(s, x) : s \in {t \in shorter : Len(t) = n - 1}, x \in S}

\* a shorty: the return tag, then one tag per declared argument
Shorties == {<<r>> \o a : r \in RetTags, a \in SeqsUpTo(ArgTags, MaxArgs)}

DeclaringClass == 3 \* the object loaded from method->declaring_class_
Objects == {1, 2}   \* managed objects a reference argument may point to
RefValues == {Null} \cup Objects
PrimValues == {0, 1}

\* ----------------------------------------------------- signature resolver
\* irb_.getJType(shorty char, kAccurate): the LLVM type of a shorty tag
getJType(c) ==
  CASE c = "L" -> "JObjectTy"
    [] c = "I" -> "Int32Ty"
    [] c = "V" -> "VoidTy"

getJObjectTy == "JObjectTy"

\* faulty variant: the target signature gets no class parameter for a static method
GetFunctionType_NoClassInsert(shorty, is_static, is_target_function) ==
  [ret |-> getJType(shorty[1]),
   args |-> << getJObjectTy >>
            \o (IF ~is_static THEN << getJType("L") >> ELSE << >>)
            \o [i \in 1..(Len(shorty) - 1) |-> getJType(shorty[i + 1])]]

\* GetFunctionType: the bridge signature (is_target_function = FALSE) or the
\* target signature (TRUE), as [ret, args]
GetFunctionType(shorty, is_static, is_target_function) ==
  LET ret_type == getJType(shorty[1])
      method_or_env == <<getJObjectTy>>
      this_or_class == IF ~is_static \/ is_target_function
                       THEN <<getJType("L")>> ELSE <<>>
      declared == [i \in 1..(Len(shorty) - 1) |-> getJType(shorty[i + 1])]
  IN  [ret |-> ret_type, args |-> method_or_env \o this_or_class \o declared]

\* CreateFunction: func_ is created with the bridge signature
CreateFunction(shorty, is_static) == GetFunctionType(shorty, is_static, FALSE)

\* the parameters of func_ after the method pointer ([arg_begin, arg_end) after
\* line 79)
ActualParams(shorty, is_static) == Tail(CreateFunction(shorty, is_static).args)

\* ------------------------------------------------- shadow frame allocator
\* the loop of lines 82-88: one slot per JObject parameter, from the base
RECURSIVE CountObjectArgs(_, _, _)
CountObjectArgs(params, i, sirt_size) ==
  IF i > Len(params) THEN sirt_size
  ELSE CountObjectArgs(params, i + 1,
                       IF params[i] = getJObjectTy THEN sirt_size + 1 ELSE sirt_size)

\* faulty variant: the class slot of a static method is not counted
SirtBase_Zero(is_static) == 0

SirtBase(is_static) == IF is_static THEN 1 ELSE 0

SirtSize(shorty, is_static) ==
  CountObjectArgs(ActualParams(shorty, is_static), 1, SirtBase(is_static))

\* ------------------------------------------------------- emitted stub ops
\* One record per instruction or runtime call that Compile emits. Address
\* computations (GEP, PtrDisp, BitCast) are folded into the op that uses them.
OpGetCurrentThread  == [op |-> "GetCurrentThread"]
OpAlloca(n)         == [op |-> "Alloca", n |-> n]
OpStoreZero         == [op |-> "StoreZero"]
OpStoreMethod       == [op |-> "StoreMethod"]
OpStoreSize(n)      == [op |-> "StoreSize", n |-> n]
OpPushShadowFrame   == [op |-> "PushShadowFrame"]
OpStoreTopOfManagedStack == [op |-> "StoreTopOfManagedStack"]
OpLoadJniEnv        == [op |-> "LoadJniEnv"]
OpStoreState(s)     == [op |-> "StoreState", val |-> s]
\* the callee address is loaded as a pointer to a function of the target type
OpLoadCodeAddr(ty)  == [op |-> "LoadCodeAddr", type |-> ty]
OpLoadDeclaringClass == [op |-> "LoadDeclaringClass"]
\* store into slot idx; src = 0 is class_object_addr, src = i > 0 is the i-th
\* parameter after the method pointer
OpStoreSlot(idx, src) == [op |-> "StoreSlot", idx |-> idx, src |-> src]
OpLoadEnv(fld, dst) == [op |-> "LoadEnv", field |-> fld, dst |-> dst]
OpStoreEnv(fld, src) == [op |-> "StoreEnv", field |-> fld, src |-> src]
OpCall(args)        == [op |-> "Call", args |-> args]
OpDecode            == [op |-> "DecodeJObjectInThread"]
OpPopShadowFrame    == [op |-> "PopShadowFrame"]
OpRet               == [op |-> "Ret"]
OpRetVoid           == [op |-> "RetVoid"]

\* operands of the foreign call
ArgEnv            == [k |-> "env", i |-> 0, idx |-> 0]       \* jni_env_object_addr
ArgSlotAddr(idx)  == [k |-> "slot", i |-> 0, idx |-> idx]    \* bitcast of sirt_field_addr
ArgSelect(i, idx) == [k |-> "select", i |-> i, idx |-> idx]  \* select(arg == null, null, slot addr)
ArgParam(i)       == [k |-> "param", i |-> i, idx |-> 0]     \* the parameter itself

\* faulty variant: the frame is initialized but never pushed
FramePrologue_NoPush(sirt_size) ==
  << OpAlloca(sirt_size), OpStoreZero, OpStoreMethod, OpStoreSize(sirt_size),
     OpStoreTopOfManagedStack >>

\* faulty variant: the slot count is stored only after the frame has been pushed
FramePrologue_SizeAfterPush(sirt_size) ==
  << OpAlloca(sirt_size), OpStoreZero, OpStoreMethod, OpPushShadowFrame,
     OpStoreSize(sirt_size), OpStoreTopOfManagedStack >>

\* lines 96-131: allocate, zero, fill the header, push, set top of managed stack
FramePrologue(sirt_size) ==
  << OpAlloca(sirt_size), OpStoreZero, OpStoreMethod, OpStoreSize(sirt_size),
     OpPushShadowFrame, OpStoreTopOfManagedStack >>

\* lines 133-146: JNIEnv, thread state to kNative, callee address
EnterNative(target_type) ==
  << OpLoadJniEnv, OpStoreState("kNative"), OpLoadCodeAddr(target_type) >>

\* lines 152-169: args starts with the environment; a static method stores the
\* declaring class in the first slot and passes that slot's address
MarshalClass(is_static) ==
  IF is_static
  THEN [ops  |-> << OpLoadDeclaringClass, OpStoreSlot(0, 0) >>,
        args |-> << ArgEnv, ArgSlotAddr(0) >>,
        sirt_member_index |-> 1]
  ELSE [ops |-> << >>, args |-> << ArgEnv >>, sirt_member_index |-> 0]

\* faulty variant: a reference is always passed as its slot's address, null or not
MarshalOne_NoNullCheck(ty, i, acc) ==
  IF ty = getJObjectTy
  THEN [ops  |-> Append(acc.ops, OpStoreSlot(acc.sirt_member_index, i)),
        args |-> Append(acc.args, ArgSlotAddr(acc.sirt_member_index)),
        sirt_member_index |-> acc.sirt_member_index + 1]
  ELSE [ops |-> acc.ops, args |-> Append(acc.args, ArgParam(i)),
        sirt_member_index |-> acc.sirt_member_index]

\* faulty variant: a primitive parameter is not passed on
MarshalOne_DropPrimitive(ty, i, acc) ==
  IF ty = getJObjectTy
  THEN [ops  |-> Append(acc.ops, OpStoreSlot(acc.sirt_member_index, i)),
        args |-> Append(acc.args, ArgSelect(i, acc.sirt_member_index)),
        sirt_member_index |-> acc.sirt_member_index + 1]
  ELSE acc

\* faulty variant: the slot index is not advanced after a reference parameter
MarshalOne_NoIncrement(ty, i, acc) ==
  IF ty = getJObjectTy
  THEN [ops  |-> Append(acc.ops, OpStoreSlot(acc.sirt_member_index, i)),
        args |-> Append(acc.args, ArgSelect(i, acc.sirt_member_index)),
        sirt_member_index |-> acc.sirt_member_index]
  ELSE [ops |-> acc.ops, args |-> Append(acc.args, ArgParam(i)),
        sirt_member_index |-> acc.sirt_member_index]

\* lines 171-185: one parameter
MarshalOne(ty, i, acc) ==
  IF ty = getJObjectTy
  THEN [ops  |-> Append(acc.ops, OpStoreSlot(acc.sirt_member_index, i)),
        args |-> Append(acc.args, ArgSelect(i, acc.sirt_member_index)),
        sirt_member_index |-> acc.sirt_member_index + 1]
  ELSE [ops |-> acc.ops, args |-> Append(acc.args, ArgParam(i)),
        sirt_member_index |-> acc.sirt_member_index]

\* faulty variant: the parameters are marshalled from the last to the first
RECURSIVE MarshalArgs_Reversed(_, _, _)
MarshalArgs_Reversed(params, i, acc) ==
  IF i > Len(params) THEN acc
  ELSE MarshalOne(params[i], i, MarshalArgs_Reversed(params, i + 1, acc))

\* lines 170-186: the loop over [arg_begin, arg_end)
RECURSIVE MarshalArgs(_, _, _)
MarshalArgs(params, i, acc) ==
  IF i > Len(params) THEN acc
  ELSE MarshalArgs(params, i + 1, MarshalOne(params[i], i, acc))

\* lines 189-203: save the cookie, open a scope at the current segment state
ScopeSave ==
  << OpLoadEnv("local_ref_cookie", "saved_local_ref_cookie"),
     OpLoadEnv("segment_state", "segment_state"),
     OpStoreEnv("local_ref_cookie", "segment_state") >>

\* faulty variant: the thread state is not set back after the call
CallAndLeaveNative_NoRestore(args) == << OpCall(args) >>

\* lines 206-212: the call, then thread state back to kRunnable
CallAndLeaveNative(args) == << OpCall(args), OpStoreState("kRunnable") >>

\* faulty variant: the return value is decoded whatever its type
ReturnAdapter_Always(ret_shorty) == << OpDecode >>

\* faulty variant: the return value is never decoded
ReturnAdapter_Never(ret_shorty) == << >>

\* lines 214-224: decode a reference return value
ReturnAdapter(ret_shorty) == IF ret_shorty = "L" THEN << OpDecode >> ELSE << >>

\* faulty variant: the saved cookie is not written back
ScopeRestore_NoCookie ==
  << OpLoadEnv("local_ref_cookie", "local_ref_cookie"),
     OpStoreEnv("segment_state", "local_ref_cookie") >>

\* faulty variant: the segment state is read and written back as it stands
ScopeRestore_KeepSegment ==
  << OpLoadEnv("segment_state", "local_ref_cookie"),
     OpStoreEnv("segment_state", "local_ref_cookie"),
     OpStoreEnv("local_ref_cookie", "saved_local_ref_cookie") >>

\* lines 226-238: segment state from the cookie, then the saved cookie back
ScopeRestore ==
  << OpLoadEnv("local_ref_cookie", "local_ref_cookie"),
     OpStoreEnv("segment_state", "local_ref_cookie"),
     OpStoreEnv("local_ref_cookie", "saved_local_ref_cookie") >>

\* lines 240-248: pop the frame and return
Epilogue(ret_shorty) ==
  << OpPopShadowFrame, IF ret_shorty # "V" THEN OpRet ELSE OpRetVoid >>

\* faulty variant: the frame is pushed only after the slots have been filled
EmitBody_PushAfterMarshal(shorty, is_static) ==
  LET params == ActualParams(shorty, is_static)
      m == MarshalArgs(params, 1, MarshalClass(is_static))
      n == SirtSize(shorty, is_static)
  IN  << OpGetCurrentThread, OpAlloca(n), OpStoreZero, OpStoreMethod, OpStoreSize(n) >>
      \o EnterNative(GetFunctionType(shorty, is_static, TRUE))
      \o m.ops
      \o << OpPushShadowFrame, OpStoreTopOfManagedStack >>
      \o ScopeSave
      \o CallAndLeaveNative(m.args)
      \o ReturnAdapter(shorty[1])
      \o ScopeRestore
      \o Epilogue(shorty[1])

\* faulty variant: the frame is popped right after the call, before the decode
EmitBody_PopBeforeDecode(shorty, is_static) ==
  LET params == ActualParams(shorty, is_static)
      m == MarshalArgs(params, 1, MarshalClass(is_static))
  IN  << OpGetCurrentThread >>
      \o FramePrologue(SirtSize(shorty, is_static))
      \o EnterNative(GetFunctionType(shorty, is_static, TRUE))
      \o m.ops
      \o ScopeSave
      \o CallAndLeaveNative(m.args)
      \o << OpPopShadowFrame >>
      \o ReturnAdapter(shorty[1])
      \o ScopeRestore
      \o << IF shorty[1] # "V" THEN OpRet ELSE OpRetVoid >>

\* the body Compile emits into basic_block_
EmitBody(shorty, is_static) ==
  LET params == ActualParams(shorty, is_static)
      m == MarshalArgs(params, 1, MarshalClass(is_static))
  IN  << OpGetCurrentThread >>
      \o FramePrologue(SirtSize(shorty, is_static))
      \o EnterNative(GetFunctionType(shorty, is_static, TRUE))
      \o m.ops
      \o ScopeSave
      \o CallAndLeaveNative(m.args)
      \o ReturnAdapter(shorty[1])
      \o ScopeRestore
      \o Epilogue(shorty[1])

\* ------------------------------------------------------------------ state
VARIABLES
  phase,        \* "init", "aborted", "constructed", "compiled", "running", "incall", "done"
  method,       \* the method being compiled: [shorty, is_static], and what the
                \* constructor found: resolved (method_ # NULL), native (kAccNative)
  func,         \* func_: the emitted body, a sequence of ops
  verify_failed,\* what llvm::verifyFunction returned (TRUE: the body is broken)
  result,       \* what Compile returned: "none" or "CompiledMethod"
  pc,           \* index in func of the next op of the running stub
  argv,         \* values of the stub's parameters after the method pointer
  state,        \* the thread's state field (Thread::StateOffset)
  frame_stack,  \* the thread's shadow frame stack, top last
  top_of_managed_stack, \* the thread's field at Thread::TopOfManagedStackOffset
  frame,        \* shadow_frame_: [size, method, slots]
  env,          \* JNIEnvExt fields: local_ref_cookie, segment_state
  regs,         \* SSA values of the stub: loads and class_object_addr
  retval,       \* retval of the stub: [t, v]
  call_args,    \* the evaluated argument list handed to the foreign function
  ret,          \* the value the stub returned: [t, v]
  entry,        \* history: the environment's fields at stub entry
  hist,         \* history: the foreign function's raw result, the local
                \* references it created
  scan          \* the collector's last observation of the frame stack

vars == << phase, method, func, verify_failed, result, pc, argv, state, frame_stack,
           top_of_managed_stack, frame, env, regs, retval, call_args, ret, entry, hist, scan >>

NoValue == [t |-> "none", v |-> 0]
NoFrame == [size |-> Undef, method |-> "undef", slots |-> << >>]
NoRegs  == [r \in {"saved_local_ref_cookie", "segment_state", "local_ref_cookie",
                   "class_object_addr"} |-> Undef]
NoHist  == [raw_retval |-> NoValue, locals_created |-> 0]
NoScan  == [at |-> "none", state |-> "kRunnable", linked |-> FALSE, frame |-> NoFrame]

Init ==
  /\ phase = "init"
  /\ method = [shorty |-> << "V" >>, is_static |-> TRUE,
               resolved |-> TRUE, native |-> TRUE]
  /\ func = << >>
  /\ verify_failed = FALSE
  /\ result = "none"
  /\ pc = 0
  /\ argv = << >>
  /\ state = "kRunnable"
  /\ frame_stack = << "caller" >>
  /\ top_of_managed_stack = "caller"
  /\ frame = NoFrame
  /\ env = [local_ref_cookie |-> 0, segment_state |-> 0]
  /\ regs = NoRegs
  /\ retval = NoValue
  /\ call_args = << >>
  /\ ret = NoValue
  /\ entry = [local_ref_cookie |-> 0, segment_state |-> 0]
  /\ hist = NoHist
  /\ scan = NoScan

\* ------------------------------------------------------------ compilation
\* faulty variant: the native flag is not checked
ConstructorChecks_NoNativeCheck(resolved, native) == resolved

\* lines 56-60: CHECK_NE(method_, NULL) and CHECK((access_flags_ & kAccNative) != 0)
ConstructorChecks(resolved, native) == resolved /\ native

\* JniCompiler::JniCompiler: a failed CHECK aborts
Construct ==
  /\ phase = "init"
  /\ \E shorty \in Shorties, is_static \in BOOLEAN, resolved \in BOOLEAN, native \in BOOLEAN :
       /\ method' = [shorty |-> shorty, is_static |-> is_static,
                     resolved |-> resolved, native |-> native]
       /\ phase' = IF ConstructorChecks(resolved, native) THEN "constructed" ELSE "aborted"
  /\ UNCHANGED << func, verify_failed, result, pc, argv, state, frame_stack,
                  top_of_managed_stack, frame, env, regs, retval, call_args, ret,
                  entry, hist, scan >>

\* lines 253-257: verifyFunction(*func_, PrintMessageAction) prints and returns
\* its verdict; the verdict is dropped and a CompiledMethod is returned
PackageResult(failed) == "CompiledMethod"

\* JniCompiler::Compile
Compile ==
  /\ phase = "constructed"
  /\ func' = EmitBody(method.shorty, method.is_static)
  /\ \E failed \in BOOLEAN :
       /\ verify_failed' = failed
       /\ result' = PackageResult(failed)
  /\ phase' = "compiled"
  /\ UNCHANGED << method, pc, argv, state, frame_stack, top_of_managed_stack, frame,
                  env, regs, retval, call_args, ret, entry, hist, scan >>

\* -------------------------------------------------------- stub execution
ParamValues(ty) == IF ty = getJObjectTy THEN RefValues ELSE PrimValues

\* the managed caller enters the stub: thread runnable, any parameter values
Invoke ==
  /\ phase = "compiled"
  /\ result = "CompiledMethod"
  /\ ~verify_failed            \* a broken body has no defined execution
  /\ LET params == ActualParams(method.shorty, method.is_static)
     IN  \E a \in [1..Len(params) -> RefValues \cup PrimValues] :
           /\ \A i \in 1..Len(params) : a[i] \in ParamValues(params[i])
           /\ argv' = a
  /\ \E seg \in {1}, cookie \in {0, 1} :
       /\ env' = [local_ref_cookie |-> cookie, segment_state |-> seg]
       /\ entry' = [local_ref_cookie |-> cookie, segment_state |-> seg]
  /\ phase' = "running"
  /\ pc' = 1
  /\ UNCHANGED << method, func, verify_failed, result, state, frame_stack,
                  top_of_managed_stack, frame, regs, retval, call_args, ret, hist, scan >>

Running(name) == phase = "running" /\ pc \in 1..Len(func) /\ func[pc].op = name

\* line 94
ExecGetCurrentThread ==
  /\ Running("GetCurrentThread")
  /\ pc' = pc + 1
  /\ UNCHANGED << phase, method, func, verify_failed, result, argv, state, frame_stack,
                  top_of_managed_stack, frame, env, regs, retval, call_args, ret,
                  entry, hist, scan >>

\* line 98: alloca leaves the memory uninitialized
ExecAlloca ==
  /\ Running("Alloca")
  /\ frame' = [size |-> Undef, method |-> "undef",
               slots |-> [i \in 1..func[pc].n |-> Undef]]
  /\ pc' = pc + 1
  /\ UNCHANGED << phase, method, func, verify_failed, result, argv, state, frame_stack,
                  top_of_managed_stack, env, regs, retval, call_args, ret, entry, hist, scan >>

\* line 104: the aggregate zero store
ExecStoreZero ==
  /\ Running("StoreZero")
  /\ frame' = [size |-> 0, method |-> "null",
               slots |-> [i \in 1..Len(frame.slots) |-> Null]]
  /\ pc' = pc + 1
  /\ UNCHANGED << phase, method, func, verify_failed, result, argv, state, frame_stack,
                  top_of_managed_stack, env, regs, retval, call_args, ret, entry, hist, scan >>

\* line 117
ExecStoreMethod ==
  /\ Running("StoreMethod")
  /\ frame' = [frame EXCEPT !.method = "method"]
  /\ pc' = pc + 1
  /\ UNCHANGED << phase, method, func, verify_failed, result, argv, state, frame_stack,
                  top_of_managed_stack, env, regs, retval, call_args, ret, entry, hist, scan >>

\* line 123
ExecStoreSize ==
  /\ Running("StoreSize")
  /\ frame' = [frame EXCEPT !.size = func[pc].n]
  /\ pc' = pc + 1
  /\ UNCHANGED << phase, method, func, verify_failed, result, argv, state, frame_stack,
                  top_of_managed_stack, env, regs, retval, call_args, ret, entry, hist, scan >>

\* runtime_support::PushShadowFrame: link the frame on top of the thread's stack
PushShadowFrame(stack, f) == Append(stack, f)

\* runtime_support::PopShadowFrame: unlink the top frame
PopShadowFrame(stack) == SubSeq(stack, 1, Len(stack) - 1)

\* line 127
ExecPushShadowFrame ==
  /\ Running("PushShadowFrame")
  /\ frame_stack' = PushShadowFrame(frame_stack, "stub")
  /\ pc' = pc + 1
  /\ UNCHANGED << phase, method, func, verify_failed, result, argv, state,
                  top_of_managed_stack, frame, env, regs, retval, call_args, ret,
                  entry, hist, scan >>

\* lines 130-131
ExecStoreTopOfManagedStack ==
  /\ Running("StoreTopOfManagedStack")
  /\ top_of_managed_stack' = "stub"
  /\ pc' = pc + 1
  /\ UNCHANGED << phase, method, func, verify_failed, result, argv, state, frame_stack,
                  frame, env, regs, retval, call_args, ret, entry, hist, scan >>

\* lines 134-136
ExecLoadJniEnv ==
  /\ Running("LoadJniEnv")
  /\ pc' = pc + 1
  /\ UNCHANGED << phase, method, func, verify_failed, result, argv, state, frame_stack,
                  top_of_managed_stack, frame, env, regs, retval, call_args, ret,
                  entry, hist, scan >>

\* lines 139-140 and 211-212
ExecStoreState ==
  /\ Running("StoreState")
  /\ state' = func[pc].val
  /\ pc' = pc + 1
  /\ UNCHANGED << phase, method, func, verify_failed, result, argv, frame_stack,
                  top_of_managed_stack, frame, env, regs, retval, call_args, ret,
                  entry, hist, scan >>

\* lines 143-146
ExecLoadCodeAddr ==
  /\ Running("LoadCodeAddr")
  /\ pc' = pc + 1
  /\ UNCHANGED << phase, method, func, verify_failed, result, argv, state, frame_stack,
                  top_of_managed_stack, frame, env, regs, retval, call_args, ret,
                  entry, hist, scan >>

\* lines 161-164
ExecLoadDeclaringClass ==
  /\ Running("LoadDeclaringClass")
  /\ regs' = [regs EXCEPT !["class_object_addr"] = DeclaringClass]
  /\ pc' = pc + 1
  /\ UNCHANGED << phase, method, func, verify_failed, result, argv, state, frame_stack,
                  top_of_managed_stack, frame, env, retval, call_args, ret, entry, hist, scan >>

\* lines 167 and 174
ExecStoreSlot ==
  /\ Running("StoreSlot")
  /\ LET o == func[pc]
         value == IF o.src = 0 THEN regs["class_object_addr"] ELSE argv[o.src]
     IN  frame' = [frame EXCEPT !.slots[o.idx + 1] = value]
  /\ pc' = pc + 1
  /\ UNCHANGED << phase, method, func, verify_failed, result, argv, state, frame_stack,
                  top_of_managed_stack, env, regs, retval, call_args, ret, entry, hist, scan >>

\* LoadFromObjectOffset(jni_env_object_addr, ...): lines 190, 196, 227
ExecLoadEnv ==
  /\ Running("LoadEnv")
  /\ regs' = [regs EXCEPT ![func[pc].dst] = env[func[pc].field]]
  /\ pc' = pc + 1
  /\ UNCHANGED << phase, method, func, verify_failed, result, argv, state, frame_stack,
                  top_of_managed_stack, frame, env, retval, call_args, ret, entry, hist, scan >>

\* StoreToObjectOffset(jni_env_object_addr, ...): lines 200, 231, 237
ExecStoreEnv ==
  /\ Running("StoreEnv")
  /\ env' = [env EXCEPT ![func[pc].field] = regs[func[pc].src]]
  /\ pc' = pc + 1
  /\ UNCHANGED << phase, method, func, verify_failed, result, argv, state, frame_stack,
                  top_of_managed_stack, frame, regs, retval, call_args, ret, entry, hist, scan >>

\* the LLVM type of one operand of the call: the environment is loaded as a
\* JObject (line 136), a slot address is cast to JObject (lines 168, 181), a
\* parameter keeps its type (line 184)
ArgType(a, params) ==
  CASE a.k = "env"    -> getJObjectTy
    [] a.k = "slot"   -> getJObjectTy
    [] a.k = "select" -> getJObjectTy
    [] a.k = "param"  -> params[a.i]

\* the value of one operand of the call: lines 152, 168, 177-182, 184
EvalArg(a, av) ==
  CASE a.k = "env"    -> [t |-> "env", v |-> 0]
    [] a.k = "slot"   -> [t |-> "slotaddr", v |-> a.idx]
    [] a.k = "select" -> IF av[a.i] = Null THEN [t |-> "val", v |-> Null]
                         ELSE [t |-> "slotaddr", v |-> a.idx]
    [] a.k = "param"  -> [t |-> "val", v |-> av[a.i]]

\* line 207: the foreign function is dispatched
ExecCall ==
  /\ Running("Call")
  /\ call_args' = [i \in 1..Len(func[pc].args) |-> EvalArg(func[pc].args[i], argv)]
  /\ phase' = "incall"
  /\ UNCHANGED << method, func, verify_failed, result, pc, argv, state, frame_stack,
                  top_of_managed_stack, frame, env, regs, retval, ret, entry, hist, scan >>

\* the foreign code creates a local reference: the segment state advances
ForeignNewLocalRef ==
  /\ phase = "incall"
  /\ env.segment_state < entry.segment_state + MaxSeg
  /\ env' = [env EXCEPT !.segment_state = @ + 1]
  /\ hist' = [hist EXCEPT !.locals_created = @ + 1]
  /\ UNCHANGED << phase, method, func, verify_failed, result, pc, argv, state,
                  frame_stack, top_of_managed_stack, frame, regs, retval, call_args,
                  ret, entry, scan >>

\* what a foreign function of this return type may hand back: nothing, a
\* primitive, or null or one of the handles it was given
ForeignResults(ret_shorty, handles) ==
  CASE ret_shorty = "V" -> {NoValue}
    [] ret_shorty = "I" -> {[t |-> "val", v |-> p] : p \in PrimValues}
    [] ret_shorty = "L" -> {[t |-> "val", v |-> Null]}
                           \cup {handles[i] : i \in {j \in 1..Len(handles) :
                                                       handles[j].t = "slotaddr"}}

\* line 207: the foreign function returns
ForeignReturn ==
  /\ phase = "incall"
  /\ \E r \in ForeignResults(method.shorty[1], call_args) :
       /\ retval' = r
       /\ hist' = [hist EXCEPT !.raw_retval = r]
  /\ phase' = "running"
  /\ pc' = pc + 1
  /\ UNCHANGED << method, func, verify_failed, result, argv, state, frame_stack,
                  top_of_managed_stack, frame, env, regs, call_args, ret, entry, scan >>

\* runtime_support::DecodeJObjectInThread: a handle into the frame is replaced
\* by the object in its slot
DecodeJObjectInThread(f, h) ==
  CASE h.t = "slotaddr" -> [t |-> "val", v |-> f.slots[h.v + 1]]
    [] h.t = "val" /\ h.v = Null -> h
    [] OTHER -> [t |-> "val", v |-> Undef]     \* not a reference handle

\* lines 222-223
ExecDecode ==
  /\ Running("DecodeJObjectInThread")
  /\ retval' = DecodeJObjectInThread(frame, retval)
  /\ pc' = pc + 1
  /\ UNCHANGED << phase, method, func, verify_failed, result, argv, state, frame_stack,
                  top_of_managed_stack, frame, env, regs, call_args, ret, entry, hist, scan >>

\* line 241
ExecPopShadowFrame ==
  /\ Running("PopShadowFrame")
  /\ frame_stack' = PopShadowFrame(frame_stack)
  /\ pc' = pc + 1
  /\ UNCHANGED << phase, method, func, verify_failed, result, argv, state,
                  top_of_managed_stack, frame, env, regs, retval, call_args, ret,
                  entry, hist, scan >>

\* line 245
ExecRet ==
  /\ Running("Ret")
  /\ ret' = retval
  /\ phase' = "done"
  /\ pc' = pc + 1
  /\ UNCHANGED << method, func, verify_failed, result, argv, state, frame_stack,
                  top_of_managed_stack, frame, env, regs, retval, call_args, entry, hist, scan >>

\* line 247
ExecRetVoid ==
  /\ Running("RetVoid")
  /\ ret' = NoValue
  /\ phase' = "done"
  /\ pc' = pc + 1
  /\ UNCHANGED << method, func, verify_failed, result, argv, state, frame_stack,
                  top_of_managed_stack, frame, env, regs, retval, call_args, entry, hist, scan >>

\* ---------------------------------------------------------- the collector
Linked == \E i \in 1..Len(frame_stack) : frame_stack[i] = "stub"

\* a collector thread walks the thread's frame stack while the thread is in
\* the native state (it needs no cooperation from the thread then) and records
\* the stub's frame as it finds it
CollectorScan ==
  /\ phase \in {"running", "incall"}
  /\ state = "kNative"
  /\ scan' = [at |-> phase, state |-> state, linked |-> Linked,
              frame |-> IF Linked THEN frame ELSE NoFrame]
  /\ scan' # scan
  /\ UNCHANGED << phase, method, func, verify_failed, result, pc, argv, state,
                  frame_stack, top_of_managed_stack, frame, env, regs, retval,
                  call_args, ret, entry, hist >>

Next ==
  \/ Construct
  \/ Compile
  \/ Invoke
  \/ ExecGetCurrentThread
  \/ ExecAlloca
  \/ ExecStoreZero
  \/ ExecStoreMethod
  \/ ExecStoreSize
  \/ ExecPushShadowFrame
  \/ ExecStoreTopOfManagedStack
  \/ ExecLoadJniEnv
  \/ ExecStoreState
  \/ ExecLoadCodeAddr
  \/ ExecLoadDeclaringClass
  \/ ExecStoreSlot
  \/ ExecLoadEnv
  \/ ExecStoreEnv
  \/ ExecCall
  \/ ForeignNewLocalRef
  \/ ForeignReturn
  \/ ExecDecode
  \/ ExecPopShadowFrame
  \/ ExecRet
  \/ ExecRetVoid
  \/ CollectorScan

Spec == Init /\ [][Next]_vars

TypeOK ==
  /\ phase \in {"init", "aborted", "constructed", "compiled", "running", "incall", "done"}
  /\ state \in {"kRunnable", "kNative"}
  /\ pc \in 0..(Len(func) + 1)

\* ================================================================ claims
\* positions of the ops of one kind in the emitted body
Pos(name) == {i \in 1..Len(func) : func[i].op = name}
PosState(val) == {i \in Pos("StoreState") : func[i].val = val}
\* Compile has returned the body; func does not change afterwards
Emitted == phase = "compiled" /\ func # << >>
Started == phase \in {"running", "incall", "done"}

\* the number of reference-typed declared arguments of the method
RefArgCount(shorty) == Cardinality({i \in 2..Len(shorty) : shorty[i] = "L"})

\* the reference values among the stub's parameters, left to right
RECURSIVE RefParamValues(_, _, _)
RefParamValues(params, av, i) ==
  IF i > Len(params) THEN << >>
  ELSE (IF params[i] = "JObjectTy" THEN << av[i] >> ELSE << >>)
       \o RefParamValues(params, av, i + 1)

\* the final content of the frame's slots for this activation
FinalSlots ==
  (IF method.is_static THEN << DeclaringClass >> ELSE << >>)
  \o RefParamValues(ActualParams(method.shorty, method.is_static), argv, 1)

CompleteFrame(f) ==
  /\ f.method = "method"
  /\ f.size = Len(f.slots)
  /\ f.slots = FinalSlots

\* C1: at every point of the foreign call (dispatched, not yet returned) the
\* stub's frame is linked on the thread's frame stack, its size field equals the
\* number of allocated slots and every slot holds its final value; and a
\* collector that scanned the frame stack during the call saw exactly that.
C1_FrameCompleteDuringCall ==
  /\ phase = "incall" => Linked /\ CompleteFrame(frame)
  /\ scan.at = "incall" => scan.linked /\ CompleteFrame(scan.frame)

C1_Witness ==
  /\ phase = "incall"
  /\ scan.at = "incall"
  /\ hist.locals_created > 0
  /\ Len(frame.slots) >= 2
  /\ \E i \in 1..Len(frame.slots) : frame.slots[i] \in Objects

\* C2: in every emitted body there is one PushShadowFrame and it precedes
\* every slot store and the store of kNative to the thread state; so a slot
\* store runs, and the state is native, only while the frame is linked.
C2_PushBeforeSlotsAndNative ==
  /\ Emitted =>
       /\ Cardinality(Pos("PushShadowFrame")) = 1
       /\ PosState("kNative") # {}
       /\ \A p \in Pos("PushShadowFrame") :
            \A i \in Pos("StoreSlot") \cup PosState("kNative") : p < i
  /\ Running("StoreSlot") => Linked
  /\ state = "kNative" => Linked

C2_Witness ==
  /\ Running("StoreSlot")
  /\ func[pc].idx >= 1
  /\ Linked
  /\ state = "kNative"

\* C3: in every emitted body the PopShadowFrame comes after the store of
\* kRunnable to the thread state and, for a reference return, after the decode
\* call; the only op after the pop is the return.
C3_PopAfterRunnableAndDecode ==
  /\ Emitted =>
       /\ Cardinality(Pos("PopShadowFrame")) = 1
       /\ PosState("kRunnable") # {}
       /\ method.shorty[1] = "L" => Pos("DecodeJObjectInThread") # {}
       /\ \A p \in Pos("PopShadowFrame") :
            /\ \A i \in PosState("kRunnable") \cup Pos("DecodeJObjectInThread") : i < p
            /\ p = Len(func) - 1
            /\ func[Len(func)].op \in {"Ret", "RetVoid"}
  /\ Running("PopShadowFrame") => state = "kRunnable"

C3_Witness ==
  /\ Running("PopShadowFrame")
  /\ method.shorty[1] = "L"
  /\ hist.raw_retval.t = "slotaddr"
  /\ retval.t = "val"
  /\ retval.v \in Objects

Params == ActualParams(method.shorty, method.is_static)
ArgPos(i) == i + 1 + (IF method.is_static THEN 1 ELSE 0)

\* the slot of the i-th parameter: slots are taken left to right
SlotOf(i) ==
  (IF method.is_static THEN 1 ELSE 0)
  + Cardinality({j \in 1..(i - 1) : Params[j] = "JObjectTy"})

\* C5: for every reference-typed argument, during the foreign call: a null
\* argument is passed as the literal null, never as a slot address, while its
\* slot has been stored to and holds null; a non-null argument is passed as the
\* address of the slot that holds it.
C5_NullPreservingHandles ==
  phase = "incall" =>
    \A i \in 1..Len(Params) :
      Params[i] = "JObjectTy" =>
        /\ \E k \in Pos("StoreSlot") : k < pc /\ func[k].src = i /\ func[k].idx = SlotOf(i)
        /\ frame.slots[SlotOf(i) + 1] = argv[i]
        /\ argv[i] = Null => call_args[ArgPos(i)] = [t |-> "val", v |-> Null]
        /\ argv[i] # Null => call_args[ArgPos(i)] = [t |-> "slotaddr", v |-> SlotOf(i)]

C5_Witness ==
  /\ phase = "incall"
  /\ \E i, j \in 1..Len(Params) :
       /\ Params[i] = "JObjectTy" /\ argv[i] = Null
       /\ call_args[ArgPos(i)].t = "val"
       /\ Params[j] = "JObjectTy" /\ argv[j] # Null
       /\ call_args[ArgPos(j)].t = "slotaddr"

Allocated == Started /\ \A i \in Pos("Alloca") : pc > i
Sized == Started /\ \A i \in Pos("StoreSize") : pc > i

\* C6 as stated: the frame has r + 1 slots for a static method and r slots for
\* an instance method, r the number of reference-typed declared arguments.
C6_Original ==
  LET r == RefArgCount(method.shorty)
      n == IF method.is_static THEN r + 1 ELSE r
  IN  /\ Allocated => Len(frame.slots) = n
      /\ Sized => frame.size = n

\* C6 (amended): the frame has r + 1 slots, and r + 1 is the value stored in its
\* size field, for a static method (the declaring class) and for an instance
\* method (the receiver) alike, r the number of reference-typed declared
\* arguments.
C6_SlotCount ==
  LET r == RefArgCount(method.shorty)
  IN  /\ Allocated => Len(frame.slots) = r + 1
      /\ Sized => frame.size = r + 1

C6_Witness ==
  /\ Sized
  /\ ~method.is_static
  /\ RefArgCount(method.shorty) = 1
  /\ frame.size = 2
  /\ Len(frame.slots) = 2

\* C7: whatever local references the foreign code created, the environment's
\* saved-cookie field after the stub returned equals its value at stub entry.
C7_CookieRestored ==
  phase = "done" => env.local_ref_cookie = entry.local_ref_cookie

C7_Witness ==
  /\ phase = "done"
  /\ hist.locals_created = MaxSeg
  /\ entry.local_ref_cookie # entry.segment_state
  /\ env.local_ref_cookie = entry.local_ref_cookie

\* C8: when the verifier rejects the emitted body, Compile returns no
\* compiled-stub artifact.
C8_NoArtifactOnReject ==
  verify_failed => result = "none"

\* C9: the decode call is emitted if and only if the return tag is reference;
\* a primitive return hands back the foreign function's raw value unchanged and
\* a void return hands back no value.
C9_DecodeIffReference ==
  /\ Emitted => (Pos("DecodeJObjectInThread") # {} <=> method.shorty[1] = "L")
  /\ Emitted /\ method.shorty[1] = "V" => func[Len(func)].op = "RetVoid"
  /\ Emitted /\ method.shorty[1] # "V" => func[Len(func)].op = "Ret"
  /\ phase = "done" /\ method.shorty[1] = "I" => ret = hist.raw_retval /\ ret.t = "val"
  /\ phase = "done" /\ method.shorty[1] = "V" => ret = NoValue

C9_Witness ==
  /\ phase = "done"
  /\ method.shorty[1] = "I"
  /\ ret = [t |-> "val", v |-> 1]

\* a handle that stands for the reference x: null itself, or the address of a
\* slot holding x
HandleFor(h, x) ==
  IF x = Null THEN h = [t |-> "val", v |-> Null]
  ELSE h.t = "slotaddr" /\ frame.slots[h.v + 1] = x

\* the value of the k-th declared argument
Declared(k) == argv[IF method.is_static THEN k ELSE k + 1]

\* C10: the foreign argument list is the environment handle, then a reference
\* handle for the declaring class (static) or the receiver (instance), then the
\* k declared arguments in declaration order, each reference as a handle and
\* each primitive unchanged.
C10_ArgumentList ==
  phase = "incall" =>
    LET k == Len(method.shorty) - 1
    IN  /\ Len(call_args) = k + 2
        /\ call_args[1].t = "env"
        /\ IF method.is_static
           THEN call_args[2].t = "slotaddr" /\ frame.slots[call_args[2].v + 1] = DeclaringClass
           ELSE HandleFor(call_args[2], argv[1])
        /\ \A j \in 1..k :
             IF method.shorty[j + 1] = "L"
             THEN HandleFor(call_args[j + 2], Declared(j))
             ELSE call_args[j + 2] = [t |-> "val", v |-> Declared(j)]

C10_Witness ==
  /\ phase = "incall"
  /\ ~method.is_static
  /\ method.shorty = << "V", "I", "L" >>
  /\ argv = << 1, 1, 2 >>
  /\ Len(call_args) = 4

\* the slots, size field and argument list of a call in progress
EnvHandle == [t |-> "env", v |-> 0]
SlotHandle(idx) == [t |-> "slotaddr", v |-> idx]
Literal(x) == [t |-> "val", v |-> x]

IsStaticAdd == method.is_static /\ method.shorty = << "I", "I", "I" >>

\* C11 as stated: for the static method int add(int, int) the frame has one
\* slot, holding the declaring class, the foreign argument list is exactly
\* [env, class], and the return value is not decoded.
C11_Original ==
  phase = "incall" /\ IsStaticAdd =>
    /\ frame.size = 1
    /\ frame.slots = << DeclaringClass >>
    /\ call_args = << EnvHandle, SlotHandle(0) >>
    /\ Pos("DecodeJObjectInThread") = {}

\* C11 (amended): for the static method int add(int, int) the frame has one
\* slot, holding the declaring class, the foreign argument list is
\* [env, class, a, b] with the two int arguments passed unchanged after the
\* class handle, and the return value is not decoded.
C11_StaticAdd ==
  /\ phase = "incall" /\ IsStaticAdd =>
       /\ frame.size = 1
       /\ frame.slots = << DeclaringClass >>
       /\ call_args = << EnvHandle, SlotHandle(0), Literal(argv[1]), Literal(argv[2]) >>
       /\ Pos("DecodeJObjectInThread") = {}
  /\ phase = "done" /\ IsStaticAdd => ret = hist.raw_retval

C11_Witness ==
  /\ phase = "incall"
  /\ IsStaticAdd
  /\ argv = << 1, 0 >>
  /\ Len(call_args) = 4

IsInstanceGet == ~method.is_static /\ method.shorty = << "L", "L" >>

\* C12: for the instance method Object get(Object key) the frame has two slots,
\* slot 0 holding the receiver and slot 1 holding key; with key null and the
\* receiver non-null the foreign argument list is [env, address of slot 0, null];
\* and the return value goes through the decode call.
C12_InstanceGet ==
  /\ phase = "incall" /\ IsInstanceGet =>
       /\ frame.size = 2
       /\ frame.slots = << argv[1], argv[2] >>
       /\ argv[1] # Null /\ argv[2] = Null =>
            call_args = << EnvHandle, SlotHandle(0), Literal(Null) >>
  /\ Emitted /\ IsInstanceGet =>
       \E d \in Pos("DecodeJObjectInThread") :
         /\ \A c \in Pos("Call") : c < d
         /\ func[Len(func)].op = "Ret"
  /\ phase = "done" /\ IsInstanceGet =>
       ret = DecodeJObjectInThread(frame, hist.raw_retval)

C12_Witness ==
  /\ phase = "done"
  /\ IsInstanceGet
  /\ argv = << 2, Null >>
  /\ call_args = << EnvHandle, SlotHandle(0), Literal(Null) >>
  /\ hist.raw_retval = SlotHandle(0)
  /\ ret = Literal(2)

\* C13: if the method identifier does not resolve, or the method lacks the
\* native flag, construction aborts: Compile never runs for the method, no
\* function is created and no compiled-stub artifact is produced.
C13_ConstructorAborts ==
  /\ phase # "init" /\ ~(method.resolved /\ method.native) =>
       /\ phase = "aborted"
       /\ func = << >>
       /\ result = "none"
       /\ pc = 0
  /\ phase = "aborted" => ~ENABLED Next

C13_Witness ==
  /\ phase = "aborted"
  /\ method.resolved
  /\ ~method.native
  /\ result = "none"

\* C15: the thread state is kRunnable during the whole preparation of the call:
\* the store of kNative comes after every slot store and no slot store executes
\* while the thread state is kNative.
C15_RunnableWhilePreparing ==
  /\ Emitted =>
       \A n \in PosState("kNative") : \A i \in Pos("StoreSlot") : i < n
  /\ Running("StoreSlot") => state = "kRunnable"
  /\ phase = "running" /\ (\A c \in Pos("Call") : pc < c) => state = "kRunnable"

\* the slot stores of the emitted body, in emission order
IsStoreSlot(o) == o.op = "StoreSlot"
SlotStores == SelectSeq(func, IsStoreSlot)

\* the parameters of reference type, by position
RefParams == {i \in 1..Len(Params) : Params[i] = "JObjectTy"}

\* C16: the slots are written at indices 0, 1, ..., n-1 in increasing order,
\* each exactly once and with no gap, n being the value stored in the size
\* field; index 0 takes the declaring class (static) or the receiver
\* (instance), the reference-typed declared arguments follow left to right, and
\* a primitive argument takes no slot.
C16_DenseSlotOrder ==
  /\ Emitted =>
       /\ \A z \in Pos("StoreSize") : func[z].n = Len(SlotStores)
       /\ \A j \in 1..Len(SlotStores) : SlotStores[j].idx = j - 1
       /\ Len(SlotStores) >= 1
       /\ SlotStores[1].src = (IF method.is_static THEN 0 ELSE 1)
       /\ \A j \in 1..(Len(SlotStores) - 1) : SlotStores[j].src < SlotStores[j + 1].src
       /\ {SlotStores[j].src : j \in 1..Len(SlotStores)} \ {0} = RefParams
  /\ Running("StoreSlot") =>
       \* the store to index idx finds the slots below it filled and the others null
       \A j \in 1..Len(frame.slots) :
         frame.slots[j] = (IF j <= func[pc].idx THEN FinalSlots[j] ELSE Null)
  /\ phase = "incall" => frame.slots = FinalSlots /\ frame.size = Len(SlotStores)

C16_Witness ==
  /\ Running("StoreSlot")
  /\ func[pc].idx = 2
  /\ method.shorty = << "V", "L", "L" >>
  /\ frame.slots[1] = DeclaringClass
  /\ frame.slots[2] \in Objects
  /\ frame.slots[3] = Null
  /\ argv[2] \in Objects

\* C17: the frame is zero-filled first, then the method pointer is stored in
\* its header, then the slot count, and only then is the frame pushed and the
\* top-of-managed-stack marker set to the frame's method field; at the push the
\* header holds the method pointer and the final slot count and every slot is
\* null.
C17_FrameInitOrder ==
  /\ Emitted =>
       \E a \in Pos("Alloca"), z \in Pos("StoreZero"), m \in Pos("StoreMethod"),
          n \in Pos("StoreSize"), p \in Pos("PushShadowFrame"),
          t \in Pos("StoreTopOfManagedStack") :
            /\ a < z /\ z < m /\ m < n /\ n < p /\ p < t
            /\ func[a].n = func[n].n
            /\ Cardinality(Pos("StoreZero") \cup Pos("StoreMethod") \cup Pos("StoreSize")
                           \cup Pos("StoreTopOfManagedStack")) = 4
            /\ \A i \in Pos("StoreSlot") : t < i
  /\ Running("PushShadowFrame") =>
       /\ frame.method = "method"
       /\ frame.size = Len(frame.slots)
       /\ frame.size = Len(FinalSlots)
       /\ \A j \in 1..Len(frame.slots) : frame.slots[j] = Null
  /\ Linked => top_of_managed_stack = "stub" \/ Running("StoreTopOfManagedStack")

C17_Witness ==
  /\ Running("PushShadowFrame")
  /\ frame.method = "method"
  /\ frame.size = 3
  /\ frame.slots = << Null, Null, Null >>

\* the store into the environment's segment-state field, and the states from
\* that store to the return of the stub
PosSegmentStore == {i \in Pos("StoreEnv") : func[i].field = "segment_state"}
AtSegmentStore == Running("StoreEnv") /\ func[pc].field = "segment_state"
SegmentWritten ==
  \/ phase = "done"
  \/ /\ phase = "running"
     /\ call_args # << >>          \* the foreign call has been made
     /\ \A i \in PosSegmentStore : pc > i

\* C18 as stated: the value written into the segment-state field after the call
\* is the segment state as it stands after the call, so the write leaves the
\* segment state unchanged; the saved cookie is then written back.
C18_Original ==
  /\ SegmentWritten => env.segment_state = entry.segment_state + hist.locals_created
  /\ phase = "done" => env.local_ref_cookie = entry.local_ref_cookie

\* C18 (amended): the value written into the segment-state field after the call
\* is the value read from the cookie field, which the stub set to the segment
\* state of before the call; so the write puts the segment state back to its
\* value at stub entry, dropping what the foreign code added; the saved cookie
\* is then written back into the cookie field.
C18_SegmentReset ==
  /\ Emitted =>
       \E l \in Pos("LoadEnv"), w \in PosSegmentStore, k \in Pos("StoreEnv") :
         /\ \A c \in Pos("Call") : c < l
         /\ l < w /\ w < k
         /\ func[l].field = "local_ref_cookie" /\ func[l].dst = func[w].src
         /\ func[k].field = "local_ref_cookie" /\ func[k].src = "saved_local_ref_cookie"
  /\ AtSegmentStore =>
       /\ regs[func[pc].src] = entry.segment_state
       /\ env.segment_state = entry.segment_state + hist.locals_created
  /\ SegmentWritten => env.segment_state = entry.segment_state
  /\ phase = "done" => env.local_ref_cookie = entry.local_ref_cookie

C18_Witness ==
  /\ phase = "done"
  /\ hist.locals_created > 0
  /\ env.segment_state = entry.segment_state
  /\ entry.local_ref_cookie = 0
  /\ env.local_ref_cookie = 0

\* C19: the argument list of the call agrees with the target signature the
\* callee address was loaded with: same length, k + 2 for k declared arguments,
\* and the same type position by position; the bridge signature has k + 1
\* parameters for a static method and k + 2 for an instance method.
C19_SignaturesAgree ==
  /\ Emitted =>
       LET k == Len(method.shorty) - 1
       IN  /\ \A c \in Pos("Call"), l \in Pos("LoadCodeAddr") :
                /\ l < c
                /\ Len(func[c].args) = k + 2
                /\ Len(func[l].type.args) = k + 2
                /\ \A i \in 1..(k + 2) :
                     ArgType(func[c].args[i], Params) = func[l].type.args[i]
                /\ \A i \in 1..k :
                     (func[l].type.args[i + 2] = "JObjectTy") <=> (method.shorty[i + 1] = "L")
                /\ func[l].type.ret = getJType(method.shorty[1])
           /\ Pos("Call") # {} /\ Pos("LoadCodeAddr") # {}
  /\ Started =>
       \* the stub was entered with the bridge signature's parameters
       Len(argv) + 1 = Len(method.shorty) - 1 + (IF method.is_static THEN 1 ELSE 2)
  /\ phase = "incall" => Len(call_args) = Len(method.shorty) + 1

C19_Witness ==
  /\ phase = "incall"
  /\ method.is_static
  /\ method.shorty = << "L", "L", "I" >>
  /\ Len(call_args) = 4
  /\ Len(argv) = 2

\* C20: the frame's address does not outlive the stub's activation: after the
\* stub returned neither the thread's frame stack nor its top-of-managed-stack
\* marker refers to the popped frame; the marker is back at its value of before
\* entry.
C20_FrameDoesNotEscape ==
  phase = "done" =>
    /\ ~Linked
    /\ frame_stack = << "caller" >>
    /\ top_of_managed_stack # "stub"
    /\ top_of_managed_stack = "caller"

====
